---- MODULE Spec2Model ----
(***************************************************************************)
(* A model of the AetherVM core: AVMMemory, AVMBus (src/hardware/memory.rs) *)
(* and AVMCpu (src/hardware/cpu.rs).                                       *)
(*                                                                         *)
(* Representation.  TLC's integers are 32 bits wide, so a u64 that can     *)
(* hold an arbitrary value (a register, a datum on the bus, an instruction *)
(* word) is the tuple of its 8 bytes, least significant first, and the     *)
(* wrapping operations are computed on the bytes.  Quantities the code     *)
(* keeps below 2^31 (addresses, IP, sizes, the 8 and 16 bit fields of an   *)
(* instruction) are plain naturals.                                        *)
(***************************************************************************)
EXTENDS Naturals, Sequences, FiniteSets, TLC

----------------------------------------------------------------------------
(* u64 values as 8 little-endian bytes *)

Byte == 0..255

U64Zero == <<0, 0, 0, 0, 0, 0, 0, 0>>

U64Max == <<255, 255, 255, 255, 255, 255, 255, 255>>

(* the u64 holding the natural n, n < 2^31 *)
NatToU64(n) ==
    << n % 256, (n \div 256) % 256, (n \div 65536) % 256, (n \div 16777216) % 256,
       0, 0, 0, 0 >>

(* x < y, x <= y on byte tuples of the same length: decided at the most *)
(* significant byte where they differ                                    *)
ULt(x, y) ==
    \E i \in 1..Len(x) :
        /\ x[i] < y[i]
        /\ \A j \in (i+1)..Len(x) : x[j] = y[j]

ULe(x, y) == x = y \/ ULt(x, y)

(* The loops below are recursive operators.  Each binds the value it    *)
(* carries to the next iteration with  x \in {e}, so that TLC computes  *)
(* it once, before the recursive call.                                  *)

(* x + y + cin on byte tuples of the same length, byte i upward, with the *)
(* carry out of the top byte dropped; acc holds the bytes below i          *)
RECURSIVE AddBytes(_, _, _, _, _)
AddBytes(x, y, i, cin, acc) ==
    IF i > Len(x) THEN acc
    ELSE CHOOSE out \in { AddBytes(x, y, i + 1, s \div 256, Append(acc, s % 256)) :
                          s \in {x[i] + y[i] + cin} } : TRUE

(* the bitwise complement of a byte tuple *)
NotBytes(y) == [i \in 1..Len(y) |-> 255 - y[i]]

(* x - y modulo 256^Len(x): x + ~y + 1 *)
SubBytes(x, y) == AddBytes(x, NotBytes(y), 1, 1, <<>>)

(* u64::wrapping_add *)
WrappingAdd(a, b) == AddBytes(a, b, 1, 0, <<>>)

(* u64::wrapping_sub *)
WrappingSub(a, b) == SubBytes(a, b)

(* y * d + cin for a byte tuple y and a digit d, byte i upward; the result *)
(* has one byte more than y (the last carry)                               *)
RECURSIVE MulDigitFrom(_, _, _, _, _)
MulDigitFrom(y, d, i, cin, acc) ==
    IF i > Len(y) THEN Append(acc, cin)
    ELSE CHOOSE out \in { MulDigitFrom(y, d, i + 1, s \div 256, Append(acc, s % 256)) :
                          s \in {y[i] * d + cin} } : TRUE

MulDigit(y, d) == MulDigitFrom(y, d, 1, 0, <<>>)

(* u64::wrapping_mul: the sum over i of a * b[i] * 256^(i-1), 8 bytes kept *)
RECURSIVE MulFrom(_, _, _, _)
MulFrom(a, b, i, acc) ==
    IF i > 8 THEN acc
    ELSE CHOOSE out \in { MulFrom(a, b, i + 1, sum) :
                          sum \in { AddBytes(acc,
                                             SubSeq([k \in 1..(i-1) |-> 0] \o MulDigit(a, b[i]), 1, 8),
                                             1, 0, <<>>) } } : TRUE

WrappingMul(a, b) == MulFrom(a, b, 1, U64Zero)

(* the largest digit q with b * q <= r (r of 9 bytes, r < b * 256), found *)
(* bit by bit from 128 down to 1                                          *)
RECURSIVE QuotDigitFrom(_, _, _, _)
QuotDigitFrom(r, b, bit, q) ==
    IF bit = 0 THEN q
    ELSE CHOOSE out \in { QuotDigitFrom(r, b, bit \div 2, q1) :
                          q1 \in { IF ULe(MulDigit(b, q + bit), r) THEN q + bit ELSE q } } : TRUE

QuotDigit(r, b) == QuotDigitFrom(r, b, 128, 0)

(* the long division of a by b from byte i of a down to byte 1: q holds the *)
(* quotient bytes above i and r (9 bytes) the running remainder; byte i is  *)
(* brought down into r1 and d is quotient byte i                            *)
RECURSIVE DivFrom(_, _, _, _, _)
DivFrom(a, b, i, q, r) ==
    IF i = 0 THEN q
    ELSE CHOOSE out \in
           UNION { { DivFrom(a, b, i - 1, [q EXCEPT ![i] = d], r2) :
                     r2 \in {SubBytes(r1, MulDigit(b, d))} } :
                   <<r1, d>> \in { <<x, QuotDigit(x, b)>> :
                                   x \in {<<a[i]>> \o SubSeq(r, 1, 8)} } } : TRUE

(* u64::wrapping_div for b # 0: long division, most significant byte first *)
WrappingDiv(a, b) == DivFrom(a, b, 8, U64Zero, <<0, 0, 0, 0, 0, 0, 0, 0, 0>>)

(* bitwise | and & of naturals below 2^31 *)
RECURSIVE BitOr(_, _)
BitOr(x, y) ==
    IF x = 0 THEN y
    ELSE IF y = 0 THEN x
    ELSE (IF x % 2 = 1 \/ y % 2 = 1 THEN 1 ELSE 0) + 2 * BitOr(x \div 2, y \div 2)

RECURSIVE BitAnd(_, _)
BitAnd(x, y) ==
    IF x = 0 \/ y = 0 THEN 0
    ELSE (IF x % 2 = 1 /\ y % 2 = 1 THEN 1 ELSE 0) + 2 * BitAnd(x \div 2, y \div 2)

(* x >> n for n a multiple of 8, and x & y, on u64 values *)
Shr(x, n) == [i \in 1..8 |-> IF i + (n \div 8) <= 8 THEN x[i + (n \div 8)] ELSE 0]

And64(x, y) == [i \in 1..8 |-> BitAnd(x[i], y[i])]

(* the natural a u64 below 2^31 holds *)
U64ToNat(x) == x[1] + 256 * x[2] + 65536 * x[3] + 16777216 * x[4]

----------------------------------------------------------------------------
(* Results.  A call returns Ok(value) or Err(exception), or it does not    *)
(* return: it panics (an index out of bounds, a division by zero) or it    *)
(* leaves through std::process::exit(code).                                *)

Ok(v) == [kind |-> "Ok", val |-> v, exc |-> "", arg |-> 0]

Err(e, a) == [kind |-> "Err", val |-> U64Zero, exc |-> e, arg |-> a]

Panic(why) == [kind |-> "Panic", val |-> U64Zero, exc |-> why, arg |-> 0]

Exit(code) == [kind |-> "Exit", val |-> U64Zero, exc |-> "", arg |-> code]

(* the unit value of Ok(()) *)
Unit == U64Zero

----------------------------------------------------------------------------
(* AVMMemory: data is the Vec<u8>, a sequence of bytes; offset k of the *)
(* Vec is data[k + 1].                                                 *)

MEMORY_START_ADDRESS == \h10000000

MEMORY_SIZE == \h40000000

(* AVMMemory::new: Vec::with_capacity reserves the space and leaves the *)
(* vector empty                                                         *)
AVMMemory_new == << >>

(* self.data[index] is in bounds *)
InBounds(data, index) == index < Len(data)

(* (val >> (8 * k)) & 0xFF, and val as u8 for k = 0 *)
ByteOf(val, k) == val[k + 1]

(* The accessors compute index = (addr - MEMORY_START_ADDRESS) as usize.  *)
(* For addr below the start the subtraction overflows: a build with       *)
(* overflow checks panics there, one without wraps to an index of at      *)
(* least 2^64 - MEMORY_START_ADDRESS, which no vector holds, so indexing   *)
(* panics.  Either way the call panics before any byte is read or written.*)
Underflows(addr) == addr < MEMORY_START_ADDRESS

(* a read of the n bytes at index, index + 1, ..: the value, or a panic at *)
(* the first offset out of bounds. touched: the offsets indexed            *)
LoadBytes(data, addr, n) ==
    IF Underflows(addr) THEN [out |-> Panic("attempt to subtract with overflow"), touched |-> {}]
    ELSE LET index == addr - MEMORY_START_ADDRESS
             bad   == {k \in 0..(n-1) : ~InBounds(data, index + k)}
         IN  IF bad = {}
             THEN [out |-> Ok([i \in 1..8 |-> IF i <= n THEN data[index + i] ELSE 0]),
                   touched |-> {index + k : k \in 0..(n-1)}]
             ELSE [out |-> Panic("index out of bounds"),
                   touched |-> {index + k : k \in {j \in 0..(n-1) : \A b \in bad : j <= b}}]

load_byte(data, addr) == LoadBytes(data, addr, 1)

load_short(data, addr) == LoadBytes(data, addr, 2)

load_int(data, addr) == LoadBytes(data, addr, 4)

load_long(data, addr) == LoadBytes(data, addr, 8)

(* a write of bytes 0..n-1 of val at index, index + 1, .., in this order: *)
(* a panic at the first offset out of bounds keeps the bytes written      *)
(* before it. Returns Ok(index)                                           *)
StoreBytes(data, addr, val, n) ==
    IF Underflows(addr)
    THEN [out |-> Panic("attempt to subtract with overflow"), data |-> data, touched |-> {}]
    ELSE LET index == addr - MEMORY_START_ADDRESS
             bad   == {k \in 0..(n-1) : ~InBounds(data, index + k)}
             done  == {j \in 0..(n-1) : \A b \in bad : j < b}
             data1 == [i \in 1..Len(data) |->
                          IF (i - 1) >= index /\ (i - 1 - index) \in done
                          THEN ByteOf(val, i - 1 - index) ELSE data[i]]
         IN  [out     |-> IF bad = {} THEN Ok(NatToU64(index)) ELSE Panic("index out of bounds"),
              data    |-> data1,
              touched |-> {index + k : k \in {j \in 0..(n-1) : \A b \in bad : j <= b}}]

write_byte(data, addr, val) == StoreBytes(data, addr, val, 1)

write_short(data, addr, val) == StoreBytes(data, addr, val, 2)

write_int(data, addr, val) == StoreBytes(data, addr, val, 4)

write_long(data, addr, val) == StoreBytes(data, addr, val, 8)

(* <AVMMemory as AVMDevice>::write *)
AVMMemory_write(data, addr, val, size) ==
    CASE size = 8  -> write_byte(data, addr, val)
      [] size = 16 -> write_short(data, addr, val)
      [] size = 32 -> write_int(data, addr, val)
      [] size = 64 -> write_long(data, addr, val)
      [] OTHER     -> [out |-> Err("IllegalSizeArgument", size), data |-> data, touched |-> {}]

(* a plausible slip: the last arm takes every other size for a long *)
AVMMemory_read_LongByDefault(data, addr, size) ==
    CASE size = 8  -> load_byte(data, addr)
      [] size = 16 -> load_short(data, addr)
      [] size = 32 -> load_int(data, addr)
      [] OTHER     -> load_long(data, addr)

(* <AVMMemory as AVMDevice>::read *)
AVMMemory_read(data, addr, size) ==
    CASE size = 8  -> load_byte(data, addr)
      [] size = 16 -> load_short(data, addr)
      [] size = 32 -> load_int(data, addr)
      [] size = 64 -> load_long(data, addr)
      [] OTHER     -> [out |-> Err("IllegalSizeArgument", size), touched |-> {}]

----------------------------------------------------------------------------
(* AVMBus: the window check, then the memory.  delegated: the call went on *)
(* to AVMMemory                                                            *)

(* a plausible slip: the upper end of the window is not checked *)
AVMBus_write_NoUpperCheck(data, addr, val, size) ==
    IF addr < MEMORY_START_ADDRESS
    THEN [out |-> Err("AddressNotInMemoryBounds", addr), data |-> data,
          touched |-> {}, delegated |-> FALSE]
    ELSE LET m == AVMMemory_write(data, addr, val, size)
         IN  [out |-> m.out, data |-> m.data, touched |-> m.touched, delegated |-> TRUE]

(* <AVMBus as AVMDevice>::write *)
AVMBus_write(data, addr, val, size) ==
    IF addr < MEMORY_START_ADDRESS \/ addr > (MEMORY_START_ADDRESS + MEMORY_SIZE)
    THEN [out |-> Err("AddressNotInMemoryBounds", addr), data |-> data,
          touched |-> {}, delegated |-> FALSE]
    ELSE LET m == AVMMemory_write(data, addr, val, size)
         IN  [out |-> m.out, data |-> m.data, touched |-> m.touched, delegated |-> TRUE]

(* a plausible slip: the upper end of the window is not checked *)
AVMBus_read_NoUpperCheck(data, addr, size) ==
    IF addr < MEMORY_START_ADDRESS
    THEN [out |-> Err("AddressNotInMemoryBounds", addr), data |-> data,
          touched |-> {}, delegated |-> FALSE]
    ELSE LET m == AVMMemory_read(data, addr, size)
         IN  [out |-> m.out, data |-> data, touched |-> m.touched, delegated |-> TRUE]

(* <AVMBus as AVMDevice>::read *)
AVMBus_read(data, addr, size) ==
    IF addr < MEMORY_START_ADDRESS \/ addr > (MEMORY_START_ADDRESS + MEMORY_SIZE)
    THEN [out |-> Err("AddressNotInMemoryBounds", addr), data |-> data,
          touched |-> {}, delegated |-> FALSE]
    ELSE LET m == AVMMemory_read(data, addr, size)
         IN  [out |-> m.out, data |-> data, touched |-> m.touched, delegated |-> TRUE]

----------------------------------------------------------------------------
(* AVMCpu.  A cpu value c is [registers, ip, data]: the register file      *)
(* (indices 0..31), the instruction pointer and the bytes of bus.memory.   *)
(* A handler returns the outcome, the three fields after it and the bus    *)
(* call it made, if any.                                                   *)

NUM_REGISTERS == 32

(* an index self.registers[i] accepts *)
RegIndexOk(i) == i < NUM_REGISTERS

NoBus ==
    [called |-> FALSE, fn |-> "", addr |-> 0, size |-> 0, out |-> Ok(Unit),
     delegated |-> FALSE, touched |-> {}]

BusCall(fn, addr, size, r) ==
    [called |-> TRUE, fn |-> fn, addr |-> addr, size |-> size, out |-> r.out,
     delegated |-> r.delegated, touched |-> r.touched]

(* the handler leaves with outcome out and has changed nothing *)
Stay(c, out, bus) ==
    [out |-> out, registers |-> c.registers, ip |-> c.ip, data |-> c.data, bus |-> bus]

(* a plausible slip: only the stack base is set, the stack pointer is 0 *)
AVMCpu_new_NoStackPointer ==
    [registers |-> [i \in 0..(NUM_REGISTERS - 1) |->
                       IF i = 12
                       THEN NatToU64(MEMORY_START_ADDRESS + MEMORY_SIZE) ELSE U64Zero],
     ip        |-> MEMORY_START_ADDRESS,
     data      |-> AVMMemory_new]

(* AVMCpu::new *)
AVMCpu_new ==
    [registers |-> [i \in 0..(NUM_REGISTERS - 1) |->
                       IF i = 12 \/ i = 13
                       THEN NatToU64(MEMORY_START_ADDRESS + MEMORY_SIZE) ELSE U64Zero],
     ip        |-> MEMORY_START_ADDRESS,
     data      |-> AVMMemory_new]

(* a plausible slip: the bus fault is passed on as it is *)
load_instr_RawFault(c) ==
    LET r == AVMBus_read(c.data, c.ip, 64)
    IN  Stay(c, r.out, BusCall("read", c.ip, 64, r))

(* AVMCpu::load_instr *)
load_instr(c) ==
    LET r == AVMBus_read(c.data, c.ip, 64)
        b == BusCall("read", c.ip, 64, r)
    IN  CASE r.out.kind = "Ok"  -> Stay(c, Ok(r.out.val), b)
          [] r.out.kind = "Err" -> Stay(c, Err("InstructionAccessFaultOnAddress", c.ip), b)
          [] OTHER              -> Stay(c, r.out, b)

(* the fields execute_instr takes from the word *)
operation(instr) == U64ToNat(Shr(instr, 48))

cda1(instr) == U64ToNat(And64(Shr(instr, 32), NatToU64(\h0000FF00))) \div 256

cda2(instr) == U64ToNat(And64(Shr(instr, 32), NatToU64(\h000000FF)))

cda3(instr) == U64ToNat(And64(Shr(instr, 24), NatToU64(\h00000000FF)))

eda1(instr) == U64ToNat(And64(Shr(instr, 32), NatToU64(\h0000FFFF)))

eda2(instr) == U64ToNat(And64(Shr(instr, 16), NatToU64(\h00000000FFFF)))

eda3(instr) == U64ToNat(And64(instr, NatToU64(\h000000000000FFFF)))

(* a plausible slip: IP advances by the width of an instruction in bytes *)
op_move_IpByWidth(c, instr) ==
    LET reg_from == cda1(instr)
        reg_to   == cda2(instr)
    IN  IF ~RegIndexOk(reg_from) \/ ~RegIndexOk(reg_to)
        THEN Stay(c, Panic("index out of bounds"), NoBus)
        ELSE [out |-> Ok(Unit),
              registers |-> [c.registers EXCEPT ![reg_to] = c.registers[reg_from]],
              ip |-> c.ip + 8, data |-> c.data, bus |-> NoBus]

(* 0xCD00  [regFrom] $move [regTo] *)
op_move(c, instr) ==
    LET reg_from == cda1(instr)
        reg_to   == cda2(instr)
    IN  IF ~RegIndexOk(reg_from) \/ ~RegIndexOk(reg_to)
        THEN Stay(c, Panic("index out of bounds"), NoBus)
        ELSE [out |-> Ok(Unit),
              registers |-> [c.registers EXCEPT ![reg_to] = c.registers[reg_from]],
              ip |-> c.ip + 1, data |-> c.data, bus |-> NoBus]

(* a plausible slip: IP advances by the width of an instruction in bytes *)
op_set_IpByWidth(c, instr) ==
    LET reg   == cda1(instr)
        value == BitOr(BitOr(eda2(instr), eda3(instr)), BitAnd(eda1(instr), \hFF))
    IN  IF ~RegIndexOk(reg)
        THEN Stay(c, Panic("index out of bounds"), NoBus)
        ELSE [out |-> Ok(Unit),
              registers |-> [c.registers EXCEPT ![reg] = NatToU64(value)],
              ip |-> c.ip + 8, data |-> c.data, bus |-> NoBus]

(* 0xCD01  [reg] $set [value] *)
op_set(c, instr) ==
    LET reg   == cda1(instr)
        value == BitOr(BitOr(eda2(instr), eda3(instr)), BitAnd(eda1(instr), \hFF))
    IN  IF ~RegIndexOk(reg)
        THEN Stay(c, Panic("index out of bounds"), NoBus)
        ELSE [out |-> Ok(Unit),
              registers |-> [c.registers EXCEPT ![reg] = NatToU64(value)],
              ip |-> c.ip + 1, data |-> c.data, bus |-> NoBus]

(* a plausible slip: the address is taken relative to IP *)
op_jmp_Relative(c, instr) ==
    LET address == BitOr(BitOr(eda1(instr), eda2(instr)), eda3(instr))
    IN  [out |-> Ok(Unit), registers |-> c.registers, ip |-> c.ip + address,
         data |-> c.data, bus |-> NoBus]

(* 0xCF00  $jmp [address] *)
op_jmp(c, instr) ==
    LET address == BitOr(BitOr(eda1(instr), eda2(instr)), eda3(instr))
    IN  [out |-> Ok(Unit), registers |-> c.registers, ip |-> address,
         data |-> c.data, bus |-> NoBus]

(* the comparison a jmc condition selects; no other condition is defined *)
Compare(condition, x, y) ==
    CASE condition = \hA -> ULt(y, x)
      [] condition = \hB -> ULt(x, y)
      [] condition = \hC -> x = y
      [] condition = \hD -> ULe(y, x)
      [] condition = \hE -> ULe(x, y)

(* a plausible slip: reg2 is taken from the low nibble of cda2 *)
op_jmc_LowNibble(c, instr) ==
    LET address   == U64ToNat(And64(NatToU64(BitOr(BitOr(eda1(instr), eda3(instr)), eda2(instr))),
                                    <<255, 255, 255, 255, 15, 0, 0, 0>>))
        condition == cda1(instr) \div 16
        reg1      == BitAnd(cda1(instr), \h0F)
        reg2      == BitAnd(cda2(instr), \h0F)
    IN  IF condition \in {\hA, \hB, \hC, \hD, \hE}
        THEN IF Compare(condition, c.registers[reg1], c.registers[reg2])
             THEN [out |-> Ok(Unit), registers |-> c.registers, ip |-> address,
                   data |-> c.data, bus |-> NoBus]
             ELSE Stay(c, Ok(Unit), NoBus)
        ELSE Stay(c, Err("UnexpectedCondition", condition), NoBus)

(* 0xCF01  [reg1] $jmc [cond] [reg2] *)
op_jmc(c, instr) ==
    LET address   == U64ToNat(And64(NatToU64(BitOr(BitOr(eda1(instr), eda3(instr)), eda2(instr))),
                                    <<255, 255, 255, 255, 15, 0, 0, 0>>))
        condition == cda1(instr) \div 16
        reg1      == BitAnd(cda1(instr), \h0F)
        reg2      == cda2(instr) \div 16
    IN  IF condition \in {\hA, \hB, \hC, \hD, \hE}
        THEN IF Compare(condition, c.registers[reg1], c.registers[reg2])
             THEN [out |-> Ok(Unit), registers |-> c.registers, ip |-> address,
                   data |-> c.data, bus |-> NoBus]
             ELSE Stay(c, Ok(Unit), NoBus)
        ELSE Stay(c, Err("UnexpectedCondition", condition), NoBus)

(* a plausible slip: the sum is accumulated into reg1 as well *)
op_add_Accumulate(c, instr) ==
    LET reg1    == cda1(instr)
        reg2    == cda2(instr)
        res_reg == cda3(instr)
    IN  IF ~RegIndexOk(reg1) \/ ~RegIndexOk(reg2) \/ ~RegIndexOk(res_reg)
        THEN Stay(c, Panic("index out of bounds"), NoBus)
        ELSE [out |-> Ok(Unit),
              registers |-> [c.registers EXCEPT
                                ![reg1] = WrappingAdd(c.registers[reg1], c.registers[reg2]),
                                ![res_reg] = WrappingAdd(c.registers[reg1], c.registers[reg2])],
              ip |-> c.ip + 1, data |-> c.data, bus |-> NoBus]

(* 0xCD02  [reg1] $add [reg2] [resReg] *)
op_add(c, instr) ==
    LET reg1    == cda1(instr)
        reg2    == cda2(instr)
        res_reg == cda3(instr)
    IN  IF ~RegIndexOk(reg1) \/ ~RegIndexOk(reg2) \/ ~RegIndexOk(res_reg)
        THEN Stay(c, Panic("index out of bounds"), NoBus)
        ELSE [out |-> Ok(Unit),
              registers |-> [c.registers EXCEPT
                                ![res_reg] = WrappingAdd(c.registers[reg1], c.registers[reg2])],
              ip |-> c.ip + 1, data |-> c.data, bus |-> NoBus]

(* 0xCD03  [reg1] $sub [reg2] [resReg] *)
op_sub(c, instr) ==
    LET reg1    == cda1(instr)
        reg2    == cda2(instr)
        res_reg == cda3(instr)
    IN  IF ~RegIndexOk(reg1) \/ ~RegIndexOk(reg2) \/ ~RegIndexOk(res_reg)
        THEN Stay(c, Panic("index out of bounds"), NoBus)
        ELSE [out |-> Ok(Unit),
              registers |-> [c.registers EXCEPT
                                ![res_reg] = WrappingSub(c.registers[reg1], c.registers[reg2])],
              ip |-> c.ip + 1, data |-> c.data, bus |-> NoBus]

(* 0xCD04  [reg1] $mul [reg2] [resReg] *)
op_mul(c, instr) ==
    LET reg1    == cda1(instr)
        reg2    == cda2(instr)
        res_reg == cda3(instr)
    IN  IF ~RegIndexOk(reg1) \/ ~RegIndexOk(reg2) \/ ~RegIndexOk(res_reg)
        THEN Stay(c, Panic("index out of bounds"), NoBus)
        ELSE [out |-> Ok(Unit),
              registers |-> [c.registers EXCEPT
                                ![res_reg] = WrappingMul(c.registers[reg1], c.registers[reg2])],
              ip |-> c.ip + 1, data |-> c.data, bus |-> NoBus]

(* 0xCD05  [reg1] $div [reg2] [resReg]: the operands are read, then       *)
(* wrapping_div panics on a zero divisor, then the result is stored        *)
op_div(c, instr) ==
    LET reg1    == cda1(instr)
        reg2    == cda2(instr)
        res_reg == cda3(instr)
    IN  IF ~RegIndexOk(reg1) \/ ~RegIndexOk(reg2)
        THEN Stay(c, Panic("index out of bounds"), NoBus)
        ELSE IF c.registers[reg2] = U64Zero
        THEN Stay(c, Panic("attempt to divide by zero"), NoBus)
        ELSE IF ~RegIndexOk(res_reg)
        THEN Stay(c, Panic("index out of bounds"), NoBus)
        ELSE [out |-> Ok(Unit),
              registers |-> [c.registers EXCEPT
                                ![res_reg] = WrappingDiv(c.registers[reg1], c.registers[reg2])],
              ip |-> c.ip + 1, data |-> c.data, bus |-> NoBus]

(* 0xCD06  [address] $move [reg] *)
op_load(c, instr) ==
    LET address == BitOr(eda2(instr), eda3(instr))
        reg     == cda1(instr)
        size    == cda2(instr)
        r       == AVMBus_read(c.data, address, size)
        b       == BusCall("read", address, size, r)
    IN  CASE r.out.kind = "Ok" ->
                IF ~RegIndexOk(reg)
                THEN Stay(c, Panic("index out of bounds"), b)
                ELSE [out |-> Ok(Unit),
                      registers |-> [c.registers EXCEPT ![reg] = r.out.val],
                      ip |-> c.ip + 1, data |-> c.data, bus |-> b]
          [] r.out.kind = "Err" -> Stay(c, Err("IllegalSizeArgument", size), b)
          [] OTHER              -> Stay(c, r.out, b)

(* a plausible slip: IP is advanced before the bus is called *)
op_store_IpFirst(c, instr) ==
    LET address == BitOr(eda2(instr), eda3(instr))
        reg     == cda1(instr)
        size    == cda2(instr)
    IN  IF ~RegIndexOk(reg)
        THEN Stay(c, Panic("index out of bounds"), NoBus)
        ELSE LET r == AVMBus_write(c.data, address, c.registers[reg], size)
                 b == BusCall("write", address, size, r)
             IN  CASE r.out.kind = "Ok" ->
                         [out |-> Ok(Unit), registers |-> c.registers,
                          ip |-> c.ip + 1, data |-> r.data, bus |-> b]
                   [] r.out.kind = "Err" ->
                         [out |-> Err("IllegalSizeArgument", size), registers |-> c.registers,
                          ip |-> c.ip + 1, data |-> r.data, bus |-> b]
                   [] OTHER ->
                         [out |-> r.out, registers |-> c.registers, ip |-> c.ip + 1,
                          data |-> r.data, bus |-> b]

(* 0xCD07  [reg] $move [address]: self.registers[reg] is read before the *)
(* bus is called                                                         *)
op_store(c, instr) ==
    LET address == BitOr(eda2(instr), eda3(instr))
        reg     == cda1(instr)
        size    == cda2(instr)
    IN  IF ~RegIndexOk(reg)
        THEN Stay(c, Panic("index out of bounds"), NoBus)
        ELSE LET r == AVMBus_write(c.data, address, c.registers[reg], size)
                 b == BusCall("write", address, size, r)
             IN  CASE r.out.kind = "Ok" ->
                         [out |-> Ok(Unit), registers |-> c.registers,
                          ip |-> c.ip + 1, data |-> r.data, bus |-> b]
                   [] r.out.kind = "Err" -> Stay(c, Err("IllegalSizeArgument", size), b)
                   [] OTHER ->
                         [out |-> r.out, registers |-> c.registers, ip |-> c.ip,
                          data |-> r.data, bus |-> b]

(* 0xFFFF  $halt *)
op_halt(c, instr) == Stay(c, Exit(0), NoBus)

(* a plausible slip: the code is taken from the 16-bit field *)
op_exit_WideCode(c, instr) ==
    LET code == eda1(instr)
    IN  Stay(c, Exit(code), NoBus)

(* 0xFFFA  $exit [code] / $quit [code] *)
op_exit(c, instr) ==
    LET code == cda1(instr)
    IN  Stay(c, Exit(code), NoBus)

(* a plausible slip: the exception carries the first operand field, not *)
(* the opcode                                                          *)
op_unexpected_WrongField(c, instr) ==
    Stay(c, Err("UnexpectedOpcode", eda1(instr)), NoBus)

(* _ => Err(Exception::UnexpectedOpcode(operation)) *)
op_unexpected(c, instr) == Stay(c, Err("UnexpectedOpcode", operation(instr)), NoBus)

(* AVMCpu::execute_instr *)
execute_instr(c, instr) ==
    CASE operation(instr) = \hCD00 -> op_move(c, instr)
      [] operation(instr) = \hCD01 -> op_set(c, instr)
      [] operation(instr) = \hCF00 -> op_jmp(c, instr)
      [] operation(instr) = \hCF01 -> op_jmc(c, instr)
      [] operation(instr) = \hCD02 -> op_add(c, instr)
      [] operation(instr) = \hCD03 -> op_sub(c, instr)
      [] operation(instr) = \hCD04 -> op_mul(c, instr)
      [] operation(instr) = \hCD05 -> op_div(c, instr)
      [] operation(instr) = \hCD06 -> op_load(c, instr)
      [] operation(instr) = \hCD07 -> op_store(c, instr)
      [] operation(instr) = \hFFFF -> op_halt(c, instr)
      [] operation(instr) = \hFFFA -> op_exit(c, instr)
      [] OTHER -> op_unexpected(c, instr)

----------------------------------------------------------------------------
(* The driver described for the CLI: it places a program in memory through *)
(* the bus, one 64-bit write per instruction word from the start address,  *)
(* and stops at the first write that does not return Ok.                   *)
RECURSIVE place_program(_, _, _)
place_program(data, prog, k) ==
    IF k > Len(prog)
    THEN [out |-> Ok(Unit), data |-> data, touched |-> {}, delegated |-> TRUE]
    ELSE LET r == AVMBus_write(data, MEMORY_START_ADDRESS + 8 * (k - 1), prog[k], 64)
         IN  IF r.out.kind = "Ok" THEN place_program(r.data, prog, k + 1) ELSE r

----------------------------------------------------------------------------
(* The Lexer of bctranslator.  A character is a string of length 1, NUL    *)
(* stands for '\0'; a lexer value l is [input, pos, cur, size, output,     *)
(* buffer, state, res]; state is "loop" while tokenize is in its main      *)
(* loop, "break" after the break of the '\0' arm, "panicked" after a       *)
(* panic!, "returned" after tokenize has returned res.                     *)

NUL == "NUL"

Letters ==
    { "a", "b", "c", "d", "e", "f", "g", "h", "i", "j", "k", "l", "m",
      "n", "o", "p", "q", "r", "s", "t", "u", "v", "w", "x", "y", "z" }

(* char::is_alphabetic *)
is_alphabetic(ch) == ch \in Letters

(* char::is_digit(10), char::is_digit(16) *)
is_digit(ch, radix) ==
    \/ ch \in { "0", "1", "2", "3", "4", "5", "6", "7", "8", "9" }
    \/ radix = 16 /\ ch \in { "a", "b", "c", "d", "e", "f" }

(* char::is_whitespace *)
is_whitespace(ch) == ch \in { " ", "\n", "\t", "\r" }

(* Token::new *)
Token_new(type, value, pos) == [type |-> type, value |-> value, pos |-> pos]

NoLexer ==
    [input |-> << >>, pos |-> 0, cur |-> NUL, size |-> 0, output |-> << >>,
     buffer |-> << >>, state |-> "none", res |-> << >>]

(* Lexer::new, for a non-empty input *)
Lexer_new(input) ==
    [input |-> input, pos |-> 0, cur |-> input[1], size |-> Len(input),
     output |-> << >>, buffer |-> << >>, state |-> "loop", res |-> << >>]

(* Lexer::has_next *)
has_next(l) == l.pos < l.size

(* Lexer::next; chars().nth(pos) counts from 0 *)
next(l) ==
    [l EXCEPT !.pos = l.pos + 1,
              !.cur = IF l.pos + 2 <= Len(l.input) THEN l.input[l.pos + 2] ELSE NUL]

(* Lexer::peek *)
peek(l, offset) ==
    IF l.pos + offset + 1 <= Len(l.input) THEN l.input[l.pos + offset + 1] ELSE NUL

(* self.output.push(Token::new(type, value, self.pos)) *)
push_token(l, type, value) ==
    [l EXCEPT !.output = Append(l.output, Token_new(type, value, l.pos))]

(* self.buffer.push(self.cur); self.next() *)
take_cur(l) == next([l EXCEPT !.buffer = Append(l.buffer, l.cur)])

RECURSIVE address_digits(_)
(* while self.cur.is_digit(16) { push; next } *)
address_digits(l) == IF is_digit(l.cur, 16) THEN address_digits(take_cur(l)) ELSE l

(* Lexer::tokenize_address *)
tokenize_address(l) ==
    LET m == address_digits([l EXCEPT !.buffer = << >>])
    IN  push_token(m, "ADDRESS", m.buffer)

(* the table of tokenize_keyword *)
keywords ==
    { [word |-> <<"$", "a", "d", "d">>, type |-> "ADD"],
      [word |-> <<"$", "s", "u", "b">>, type |-> "SUB"],
      [word |-> <<"$", "m", "u", "l">>, type |-> "MUL"],
      [word |-> <<"$", "d", "i", "v">>, type |-> "DIV"],
      [word |-> <<"$", "r", "e", "m">>, type |-> "REM"],
      [word |-> <<"$", "m", "o", "v", "e">>, type |-> "MOVE"],
      [word |-> <<"$", "s", "e", "t">>, type |-> "SET"],
      [word |-> <<"$", "j", "m", "p">>, type |-> "JMP"],
      [word |-> <<"$", "j", "m", "c">>, type |-> "JMC"],
      [word |-> <<"$", "f", "u", "n", "c", "d", "e", "f">>, type |-> "FUNCDEF"],
      [word |-> <<"$", "p", "a", "r", "a", "m", "s">>, type |-> "PARAMS"],
      [word |-> <<"$", "v", "a", "r", "d", "e", "f">>, type |-> "VARDEF"],
      [word |-> <<"$", "r", "e", "t">>, type |-> "RET"],
      [word |-> <<"$", "c", "a", "l", "l">>, type |-> "CALL"],
      [word |-> <<"$", "h", "a", "l", "t">>, type |-> "HALT"],
      [word |-> <<"$", "e", "x", "i", "t">>, type |-> "EXIT"],
      [word |-> <<"$", "q", "u", "i", "t">>, type |-> "EXIT"],
      [word |-> <<"$", "i", "8">>, type |-> "I8KW"],
      [word |-> <<"$", "i", "1", "6">>, type |-> "I16KW"],
      [word |-> <<"$", "i", "3", "2">>, type |-> "I32KW"],
      [word |-> <<"$", "i", "6", "4">>, type |-> "I64KW"],
      [word |-> <<"$", "u", "n", "s", "i", "g", "n", "e", "d">>, type |-> "UNSIGNEDKW"],
      [word |-> <<"$", "u">>, type |-> "UNSIGNEDKW"],
      [word |-> <<"$", "f", "l", "o", "a", "t">>, type |-> "FLOATKW"],
      [word |-> <<"$", "d", "o", "u", "b", "l", "e">>, type |-> "DOUBLEKW"] }

RECURSIVE keyword_chars(_)
(* while self.cur.is_alphabetic() || self.cur.is_digit(10) { push; next } *)
keyword_chars(l) ==
    IF is_alphabetic(l.cur) \/ is_digit(l.cur, 10) THEN keyword_chars(take_cur(l)) ELSE l

(* Lexer::tokenize_keyword *)
tokenize_keyword(l) ==
    LET m     == keyword_chars(take_cur([l EXCEPT !.buffer = << >>]))
        found == { k \in keywords : k.word = m.buffer }
    IN  IF found # {}
        THEN push_token(m, (CHOOSE k \in found : TRUE).type, m.buffer)
        ELSE [m EXCEPT !.state = "panicked"]

RECURSIVE num_loop(_, _)
(* the loop of tokenize_num; is_float: the loop ended on an 'f' *)
num_loop(l, is_floating) ==
    IF is_digit(l.cur, 10) THEN num_loop(take_cur(l), is_floating)
    ELSE IF l.cur = "." /\ ~is_floating THEN num_loop(take_cur(l), TRUE)
    ELSE IF l.cur = "." /\ is_floating
    THEN [l |-> [l EXCEPT !.state = "panicked"], is_floating |-> is_floating, is_float |-> FALSE]
    ELSE IF l.cur = "f"
    THEN [l |-> next(l), is_floating |-> is_floating, is_float |-> TRUE]
    ELSE [l |-> l, is_floating |-> is_floating, is_float |-> FALSE]

(* Lexer::tokenize_num *)
tokenize_num(l) ==
    LET r == num_loop([l EXCEPT !.buffer = << >>], FALSE)
    IN  IF r.l.state = "panicked" THEN r.l
        ELSE IF r.is_floating
        THEN IF r.is_float
             THEN push_token(r.l, "FLOATING { is_double: false }", r.l.buffer)
             ELSE push_token(r.l, "FLOATING { is_double: true }", r.l.buffer)
        ELSE push_token(r.l, "INTEGER { unsigned: false, size: 32 }", r.l.buffer)

(* Lexer::tokenize_hexnum *)
tokenize_hexnum(l) ==
    LET m == address_digits(next(next([l EXCEPT !.buffer = << >>])))
    IN  push_token(m, "INTEGER { unsigned: true, size: 32 }", m.buffer)

RECURSIVE ident_chars(_)
(* the loop of tokenize_ident *)
ident_chars(l) ==
    IF is_alphabetic(l.cur) \/ l.cur = "_" THEN ident_chars(take_cur(l)) ELSE l

(* Lexer::tokenize_ident *)
tokenize_ident(l) ==
    LET m == ident_chars([l EXCEPT !.buffer = << >>])
    IN  push_token(m, "IDENT", m.buffer)

(* the arms of tokenize that push one token for one character *)
punctuation ==
    { <<".", "PERIOD">>, <<",", "COMMA">>, <<"_", "UNDER">>, <<":", "COLON">>,
      <<"(", "LPAREN">>, <<")", "RPAREN">>, <<"{", "LBRACE">>, <<"}", "RBRACE">>,
      <<"=", "EQ">>, <<"+", "PLUS">>, <<"-", "MINUS">>, <<"*", "STAR">>,
      <<"/", "SLASH">>, <<"%", "PERCENT">> }

(* one iteration of the while loop of Lexer::tokenize *)
tokenize_iteration(l) ==
    CASE l.cur = "$" -> tokenize_keyword(l)
      [] \E q \in punctuation : q[1] = l.cur ->
             next(push_token(l, (CHOOSE q \in punctuation : q[1] = l.cur)[2], <<l.cur>>))
      [] l.cur \in {"\n", "\t"} -> next(l)
      [] l.cur = "@" -> tokenize_address(push_token(l, "AT", <<"@">>))
      [] l.cur = NUL ->
             [l EXCEPT !.output = Append(l.output, Token_new("EOF", <<NUL>>, 999999)),
                       !.state = "break"]
      [] OTHER ->
             IF l.cur = "0" /\ peek(l, 1) = "x" THEN tokenize_hexnum(l)
             ELSE IF is_digit(l.cur, 10) THEN tokenize_num(l)
             ELSE IF is_alphabetic(l.cur) THEN tokenize_ident(l)
             ELSE IF is_whitespace(l.cur) THEN next(l)
             ELSE [l EXCEPT !.state = "panicked"]

(* the end of Lexer::tokenize: the tokens are copied to the result *)
tokenize_return(l) == [l EXCEPT !.state = "returned", !.res = l.output]

----------------------------------------------------------------------------
(* Instruction words, most significant field first *)

Word(op, e1, e2, e3) ==
    << e3 % 256, e3 \div 256, e2 % 256, e2 \div 256,
       e1 % 256, e1 \div 256, op % 256, op \div 256 >>

(* a word of the register layout: cda1, cda2, cda3 and the low 24 bits *)
RegWord(op, a1, a2, a3, low) == Word(op, a1 * 256 + a2, a3 * 256 + (low \div 65536), low % 65536)

(* a jmc word: condition, reg1, reg2 and the low 32 bits *)
JmcWord(cond, r1, r2, e2, e3) == Word(\hCF01, (cond * 16 + r1) * 256 + r2 * 16, e2, e3)

SetR0 == RegWord(\hCD01, 0, 0, 0, 5)

SetR1 == RegWord(\hCD01, 1, 0, 0, 3)

AddR0R1R2 == RegWord(\hCD02, 0, 1, 2, 0)

Halt == Word(\hFFFF, 0, 0, 0)

(* set r0 = 5; set r1 = 3; add r0, r1 -> r2; halt *)
Program == <<SetR0, SetR1, AddR0R1R2, Halt>>

MoveWords ==
    { RegWord(\hCD00, 12, 3, 0, 0), RegWord(\hCD00, 0, 32, 0, 0), RegWord(\hCD00, 255, 0, 0, 0),
      RegWord(\hCD00, 0, 13, 0, 0) }

SetWords ==
    { SetR0, SetR1, RegWord(\hCD01, 4, 1, 0, 0), RegWord(\hCD01, 12, 0, 0, \hFFFF),
      Word(\hCD01, \h0207, \h0F00, \h00F0), RegWord(\hCD01, 32, 0, 0, 1) }

ArithWords ==
    { AddR0R1R2,
      RegWord(\hCD03, 0, 12, 3, 0), RegWord(\hCD02, 3, 12, 5, 0), RegWord(\hCD02, 3, 4, 5, 0),
      RegWord(\hCD03, 12, 1, 13, 0),
      RegWord(\hCD04, 12, 12, 6, 0), RegWord(\hCD04, 6, 6, 7, 0), RegWord(\hCD04, 3, 1, 0, 0),
      RegWord(\hCD02, 0, 0, 32, 0), RegWord(\hCD03, 0, 200, 1, 0), RegWord(\hCD04, 77, 0, 1, 0) }

DivWords ==
    { RegWord(\hCD05, 12, 1, 2, 0), RegWord(\hCD05, 3, 12, 2, 0), RegWord(\hCD05, 12, 12, 40, 0) }

JmpWords ==
    { Word(\hCF00, 0, 0, 0), Word(\hCF00, \h00A0, \hA000, \h000F), Word(\hCF00, 0, \h1000, 0) }

JmcWords ==
    { JmcWord(cond, 0, 1, 0, \h0040) : cond \in {\hA, \hB, \hC, \hD, \hE, \h9, \hF} }
    \cup { JmcWord(cond, 12, 0, \h0100, 0) : cond \in {\hA, \hB} }

LoadStoreWords ==
    { RegWord(op, 0, size, 0, \hFFFF) : op \in {\hCD06, \hCD07}, size \in {8, 7} }
    \cup { RegWord(\hCD06, 32, 64, 0, 0), RegWord(\hCD07, 32, 64, 0, 0) }

ExitWords == { Halt, RegWord(\hFFFA, 3, 0, 0, 0), RegWord(\hFFFA, 255, 7, 7, 7) }

UnknownWords == { U64Zero, Word(\hCD08, 0, 0, 0), Word(\hCCFF, \hFFFF, \hFFFF, \hFFFF) }

Words ==
    MoveWords \cup SetWords \cup ArithWords \cup DivWords \cup JmpWords \cup JmcWords
    \cup LoadStoreWords \cup ExitWords \cup UnknownWords

(* arguments of the direct bus and memory calls *)
Addrs ==
    { 0, MEMORY_START_ADDRESS - 1, MEMORY_START_ADDRESS,
      MEMORY_START_ADDRESS + MEMORY_SIZE - 1, MEMORY_START_ADDRESS + MEMORY_SIZE,
      MEMORY_START_ADDRESS + MEMORY_SIZE + 1 }

Sizes == { 0, 8, 16, 24, 32, 64, 128 }

Vals == { <<8, 7, 6, 5, 4, 3, 2, 1>>, U64Max }

(* the number of calls made on one cpu *)
MaxSteps == 3

----------------------------------------------------------------------------
(* The state: one AVMCpu (registers, ip and the bytes of its memory), the  *)
(* state of the process, and the record of the last call.                  *)

VARIABLES
    registers,  \* AVMCpu.registers
    ip,         \* AVMCpu.ip
    data,       \* AVMCpu.bus.memory.data
    status,     \* "running", "panicked" or "exited"
    last,       \* the last call: its arguments, its outcome, the state before it
    steps,      \* the number of calls made on the cpu
    scen,       \* the position in a run of the driver: see Track
    lex         \* the Lexer of bctranslator, or NoLexer when none was made

vars == <<registers, ip, data, status, last, steps, scen, lex>>

cpu == [registers |-> registers, ip |-> ip, data |-> data]

Call(op, instr, addr, val, size, out, bus) ==
    [op |-> op, instr |-> instr, addr |-> addr, val |-> val, size |-> size,
     out |-> out, bus |-> bus, pre |-> cpu]

(* a panic or an exit ends the process *)
StatusAfter(out) ==
    CASE out.kind = "Panic" -> "panicked"
      [] out.kind = "Exit"  -> "exited"
      [] OTHER              -> "running"

Init ==
    /\ registers = AVMCpu_new.registers
    /\ ip = AVMCpu_new.ip
    /\ data = AVMCpu_new.data
    /\ status = "running"
    /\ last = [op |-> "new", instr |-> U64Zero, addr |-> 0, val |-> U64Zero, size |-> 0,
               out |-> Ok(Unit), bus |-> NoBus,
               pre |-> [registers |-> AVMCpu_new.registers, ip |-> AVMCpu_new.ip,
                        data |-> AVMCpu_new.data]]
    /\ steps = 0
    /\ scen = "off"
    /\ lex = NoLexer

(* The driver's run: the program is placed ("fetch"), then load_instr      *)
(* ("execute") and execute_instr of the word fetched ("fetch") alternate.  *)
(* Any other call leaves the run ("off").                                  *)
Track(op, instr) ==
    CASE op = "place_program" /\ steps = 0 -> "fetch"
      [] op = "load_instr" /\ scen = "fetch" -> "execute"
      [] op = "execute_instr" /\ scen = "execute" /\ last.out.kind = "Ok"
            /\ instr = last.out.val -> "fetch"
      [] OTHER -> "off"

(* the driver places the program, before any other call *)
PlaceProgram ==
    /\ status = "running"
    /\ steps = 0
    /\ \E r \in {place_program(data, Program, 1)} :
           /\ data' = r.data
           /\ status' = StatusAfter(r.out)
           /\ last' = Call("place_program", U64Zero, MEMORY_START_ADDRESS, U64Zero, 64, r.out,
                           BusCall("write", MEMORY_START_ADDRESS, 64, r))
    /\ steps' = steps + 1
    /\ scen' = Track("place_program", U64Zero)
    /\ UNCHANGED <<registers, ip, lex>>

(* cpu.load_instr() *)
LoadInstr ==
    /\ status = "running"
    /\ steps < MaxSteps
    /\ \E r \in {load_instr(cpu)} :
           /\ registers' = r.registers
           /\ ip' = r.ip
           /\ data' = r.data
           /\ status' = StatusAfter(r.out)
           /\ last' = Call("load_instr", U64Zero, ip, U64Zero, 64, r.out, r.bus)
    /\ steps' = steps + 1
    /\ scen' = Track("load_instr", U64Zero)
    /\ UNCHANGED lex

(* cpu.execute_instr(instr) *)
ExecuteInstr(instr) ==
    /\ status = "running"
    /\ steps < MaxSteps
    /\ \E r \in {execute_instr(cpu, instr)} :
           /\ registers' = r.registers
           /\ ip' = r.ip
           /\ data' = r.data
           /\ status' = StatusAfter(r.out)
           /\ last' = Call("execute_instr", instr, 0, U64Zero, 0, r.out, r.bus)
    /\ steps' = steps + 1
    /\ scen' = Track("execute_instr", instr)
    /\ UNCHANGED lex

Next ==
    \/ PlaceProgram
    \/ LoadInstr
    \/ \E instr \in Words : ExecuteInstr(instr)

Spec == Init /\ [][Next]_vars

(* The bus and the memory called directly *)

BusRead(addr, size) ==
    /\ status = "running"
    /\ \E r \in {AVMBus_read(data, addr, size)} :
           /\ data' = r.data
           /\ status' = StatusAfter(r.out)
           /\ last' = Call("bus_read", U64Zero, addr, U64Zero, size, r.out,
                           BusCall("read", addr, size, r))
    /\ UNCHANGED <<registers, ip, steps, scen, lex>>

BusWrite(addr, val, size) ==
    /\ status = "running"
    /\ \E r \in {AVMBus_write(data, addr, val, size)} :
           /\ data' = r.data
           /\ status' = StatusAfter(r.out)
           /\ last' = Call("bus_write", U64Zero, addr, val, size, r.out,
                           BusCall("write", addr, size, r))
    /\ UNCHANGED <<registers, ip, steps, scen, lex>>

MemRead(addr, size) ==
    /\ status = "running"
    /\ \E r \in {AVMMemory_read(data, addr, size)} :
           /\ status' = StatusAfter(r.out)
           /\ last' = Call("mem_read", U64Zero, addr, U64Zero, size, r.out,
                           [NoBus EXCEPT !.touched = r.touched])
    /\ UNCHANGED <<registers, ip, data, steps, scen, lex>>

MemWrite(addr, val, size) ==
    /\ status = "running"
    /\ \E r \in {AVMMemory_write(data, addr, val, size)} :
           /\ data' = r.data
           /\ status' = StatusAfter(r.out)
           /\ last' = Call("mem_write", U64Zero, addr, val, size, r.out,
                           [NoBus EXCEPT !.touched = r.touched])
    /\ UNCHANGED <<registers, ip, steps, scen, lex>>

NextBus ==
    \/ \E addr \in Addrs, size \in Sizes : BusRead(addr, size)
    \/ \E addr \in Addrs, val \in Vals, size \in Sizes : BusWrite(addr, val, size)
    \/ \E addr \in Addrs, size \in Sizes : MemRead(addr, size)
    \/ \E addr \in Addrs, val \in Vals, size \in Sizes : MemWrite(addr, val, size)

SpecBus == Init /\ [][NextBus]_vars

(* A cpu that has run far: execute_instr of move r0, r0 changes no         *)
(* register and adds 1 to IP, so after k of them the cpu is as new() left  *)
(* it but for IP = base + k.  Skips are the k that bring IP to the upper   *)
(* end of the window.                                                      *)

MoveR0R0 == RegWord(\hCD00, 0, 0, 0, 0)

Skips == { MEMORY_SIZE - 1, MEMORY_SIZE, MEMORY_SIZE + 1 }

InitFetch ==
    /\ registers = AVMCpu_new.registers
    /\ ip \in { AVMCpu_new.ip + k : k \in Skips }
    /\ data = AVMCpu_new.data
    /\ status = "running"
    /\ last = [op |-> "execute_instr", instr |-> MoveR0R0, addr |-> 0, val |-> U64Zero,
               size |-> 0, out |-> Ok(Unit), bus |-> NoBus,
               pre |-> [registers |-> AVMCpu_new.registers, ip |-> ip - 1,
                        data |-> AVMCpu_new.data]]
    /\ steps = 0
    /\ scen = "off"
    /\ lex = NoLexer

NextFetch ==
    \/ LoadInstr
    \/ \E instr \in Words : ExecuteInstr(instr)

SpecFetch == InitFetch /\ [][NextFetch]_vars

(* The lexer: Lexer::new(input) on a non-empty input, then tokenize, one   *)
(* iteration of its loop at a time.  The cpu is not involved.              *)

LexChars == { "$", "@", "u", "f", "x", "0", "1", ".", " ", "+", "#" }

(* the longest input *)
MaxLen == 3

(* the iterations of the loop are followed up to this many tokens *)
MaxTokens == 8

LexInputs == UNION { [1..n -> LexChars] : n \in 1..MaxLen }

InitLex ==
    /\ registers = AVMCpu_new.registers
    /\ ip = AVMCpu_new.ip
    /\ data = AVMCpu_new.data
    /\ status = "running"
    /\ last = [op |-> "new", instr |-> U64Zero, addr |-> 0, val |-> U64Zero, size |-> 0,
               out |-> Ok(Unit), bus |-> NoBus,
               pre |-> [registers |-> AVMCpu_new.registers, ip |-> AVMCpu_new.ip,
                        data |-> AVMCpu_new.data]]
    /\ steps = 0
    /\ scen = "off"
    /\ lex \in { Lexer_new(input) : input \in LexInputs }

(* one iteration of while self.has_next() { match self.cur { ... } } *)
TokenizeStep ==
    /\ lex.state = "loop"
    /\ has_next(lex)
    /\ Len(lex.output) < MaxTokens
    /\ lex' = tokenize_iteration(lex)
    /\ UNCHANGED <<registers, ip, data, status, last, steps, scen>>

(* the loop is left and tokenize returns the tokens *)
TokenizeReturn ==
    /\ \/ lex.state = "loop" /\ ~has_next(lex)
       \/ lex.state = "break"
    /\ lex' = tokenize_return(lex)
    /\ UNCHANGED <<registers, ip, data, status, last, steps, scen>>

NextLex ==
    \/ TokenizeStep
    \/ TokenizeReturn

SpecLex == InitLex /\ [][NextLex]_vars

----------------------------------------------------------------------------
(* Properties of the bus and the memory, checked under SpecBus *)

(* base <= a <= base + size *)
InWindow(a) == MEMORY_START_ADDRESS <= a /\ a <= MEMORY_START_ADDRESS + MEMORY_SIZE

ValidWidths == {8, 16, 32, 64}

(* v mod 2^w for w a multiple of 8 *)
LowBits(v, w) == [i \in 1..8 |-> IF 8 * i <= w THEN v[i] ELSE 0]

(* the offset in the store of address a *)
Offset(a) == a - MEMORY_START_ADDRESS

(* C1. Round trip through the bus: a write of width w in {8,16,32,64} at   *)
(* an address a of the window returns Ok, a read of a at width w that      *)
(* follows it returns v mod 2^w, and the write alters no byte outside      *)
(* [a, a + w/8).                                                           *)
C1_RoundTrip ==
    (last.op = "bus_write" /\ InWindow(last.addr) /\ last.size \in ValidWidths) =>
        /\ last.out.kind = "Ok"
        /\ AVMBus_read(data, last.addr, last.size).out = Ok(LowBits(last.val, last.size))
        /\ Len(data) = Len(last.pre.data)
        /\ \A k \in 1..Len(data) :
              (k - 1 < Offset(last.addr) \/ k - 1 >= Offset(last.addr) + last.size \div 8)
                  => data[k] = last.pre.data[k]

(* C2. A bus read or write at an address outside the window, of any width, *)
(* valid or not, fails with AddressNotInMemoryBounds(address), never       *)
(* reaches the memory (so the window is checked before the width) and      *)
(* leaves every byte as it was.                                            *)
C2_OutsideWindow ==
    (last.op \in {"bus_read", "bus_write"} /\ ~InWindow(last.addr)) =>
        /\ last.out = Err("AddressNotInMemoryBounds", last.addr)
        /\ ~last.bus.delegated
        /\ last.bus.touched = {}
        /\ data = last.pre.data
        /\ status = "running"

(* C2 witness: a write above the window with a width that is not valid was *)
(* answered with AddressNotInMemoryBounds                                  *)
C2_Witness ==
    /\ last.op = "bus_write"
    /\ last.addr > MEMORY_START_ADDRESS + MEMORY_SIZE
    /\ last.size \notin ValidWidths
    /\ last.out = Err("AddressNotInMemoryBounds", last.addr)

(* C3. A read or write through the bus or directly on the memory, at an   *)
(* address of the window with a width outside {8,16,32,64}, fails with    *)
(* IllegalSizeArgument(width): no byte is indexed and none changes.       *)
C3_IllegalSize ==
    (/\ last.op \in {"bus_read", "bus_write", "mem_read", "mem_write"}
     /\ InWindow(last.addr)
     /\ last.size \notin ValidWidths) =>
        /\ last.out = Err("IllegalSizeArgument", last.size)
        /\ last.bus.touched = {}
        /\ data = last.pre.data
        /\ status = "running"

(* C3 witness: a direct memory read of width 24 in the window was refused *)
C3_Witness ==
    /\ last.op = "mem_read"
    /\ InWindow(last.addr)
    /\ last.size = 24
    /\ last.out = Err("IllegalSizeArgument", 24)

(* C4. Every access the bus passes on to the memory with a width in        *)
(* {8,16,32,64} lies inside the store: the address is below base + size    *)
(* and each offset a - base .. a - base + w/8 - 1 is in [0, size).         *)
C4_AccessInsideStore ==
    (last.bus.called /\ last.bus.delegated /\ last.bus.size \in ValidWidths) =>
        /\ last.bus.addr < MEMORY_START_ADDRESS + MEMORY_SIZE
        /\ \A k \in 0..(last.bus.size \div 8 - 1) :
              /\ Offset(last.bus.addr) + k >= 0
              /\ Offset(last.bus.addr) + k < MEMORY_SIZE
        /\ \A o \in last.bus.touched : o < MEMORY_SIZE

----------------------------------------------------------------------------
(* Properties of the cpu, checked under Spec.  They read the last call:    *)
(* the fields of its word by their bit ranges, and the state before it.    *)

IsExec == last.op = "execute_instr"

(* bits [63:48], [47:40], [39:32], [31:24] of the word of the last call *)
Opcode == last.instr[7] + 256 * last.instr[8]

Field1 == last.instr[6]

Field2 == last.instr[5]

Field3 == last.instr[4]

(* bits [47:32], [31:16], [15:0] *)
Wide1 == last.instr[5] + 256 * last.instr[6]

Wide2 == last.instr[3] + 256 * last.instr[4]

Wide3 == last.instr[1] + 256 * last.instr[2]

(* the last call changed no register, not IP and no byte of memory *)
NothingChanged ==
    /\ registers = last.pre.registers
    /\ ip = last.pre.ip
    /\ data = last.pre.data

(* (x op y) mod 2^64 for the three opcodes *)
ArithResult(op, x, y) ==
    CASE op = \hCD02 -> WrappingAdd(x, y)
      [] op = \hCD03 -> WrappingSub(x, y)
      [] op = \hCD04 -> WrappingMul(x, y)

(* C5. An add, sub or mul word never faults, whatever the word and the    *)
(* registers: the call returns Ok, reg[cda3] is (reg[cda1] op reg[cda2])  *)
(* mod 2^64, no other register changes and IP advances by 1.              *)
C5_ArithNeverFaults ==
    (IsExec /\ Opcode \in {\hCD02, \hCD03, \hCD04}) =>
        /\ last.out = Ok(Unit)
        /\ registers = [last.pre.registers EXCEPT
                           ![Field3] = ArithResult(Opcode, last.pre.registers[Field1],
                                                   last.pre.registers[Field2])]
        /\ ip = last.pre.ip + 1
        /\ data = last.pre.data

(* the comparison of x with y that condition nibble c names *)
Holds(c, x, y) ==
    \/ c = \hA /\ ULt(y, x)
    \/ c = \hB /\ ULt(x, y)
    \/ c = \hC /\ x = y
    \/ c = \hD /\ ~ULt(x, y)
    \/ c = \hE /\ ~ULt(y, x)

(* the operands of a jmc word: condition, the two registers, the target *)
JmcCond == Field1 \div 16

JmcReg1 == Field1 % 16

JmcReg2 == Field2 \div 16

JmcTarget == BitOr(BitOr(Wide1, Wide2), Wide3)

(* C6. A jmc word with a condition in 0xA..0xE returns Ok and sets IP to   *)
(* the target when the unsigned comparison of reg[reg1] with reg[reg2]     *)
(* holds, and leaves IP as it was (not incremented) when it does not; any  *)
(* other condition fails with UnexpectedCondition(c) and IP as it was.  No *)
(* register changes in any case.                                           *)
C6_Jmc ==
    (IsExec /\ Opcode = \hCF01) =>
        /\ registers = last.pre.registers
        /\ data = last.pre.data
        /\ IF JmcCond \in {\hA, \hB, \hC, \hD, \hE}
           THEN /\ last.out = Ok(Unit)
                /\ ip = IF Holds(JmcCond, last.pre.registers[JmcReg1], last.pre.registers[JmcReg2])
                        THEN JmcTarget ELSE last.pre.ip
           ELSE /\ last.out = Err("UnexpectedCondition", JmcCond)
                /\ ip = last.pre.ip

(* C6 witness: a jmc on > between registers that differ was taken and IP *)
(* moved to the target                                                   *)
C6_Witness ==
    /\ IsExec /\ Opcode = \hCF01 /\ JmcCond = \hA
    /\ ULt(last.pre.registers[JmcReg2], last.pre.registers[JmcReg1])
    /\ ip = JmcTarget
    /\ ip # last.pre.ip

DefinedOpcodes ==
    { \hCD00, \hCD01, \hCD02, \hCD03, \hCD04, \hCD05, \hCD06, \hCD07,
      \hCF00, \hCF01, \hFFFF, \hFFFA }

(* C7. A word whose top 16 bits are none of the twelve opcodes returns     *)
(* UnexpectedOpcode(top 16 bits) and changes no register, not IP and no    *)
(* byte; a word with one of the twelve never returns UnexpectedOpcode.     *)
C7_UnexpectedOpcode ==
    IsExec =>
        IF Opcode \notin DefinedOpcodes
        THEN last.out = Err("UnexpectedOpcode", Opcode) /\ NothingChanged
        ELSE ~(last.out.kind = "Err" /\ last.out.exc = "UnexpectedOpcode")

(* C7 witness: opcode 0xCD08, next to the defined ones, was refused after *)
(* an earlier call had changed the cpu                                    *)
C7_Witness ==
    /\ IsExec /\ Opcode = \hCD08
    /\ last.out = Err("UnexpectedOpcode", \hCD08)
    /\ registers # AVMCpu_new.registers

(* C8. When a jmc, load or store word returns an exception, the registers, *)
(* IP and every byte of memory are as before the call.                     *)
C8_FaultAtomicity ==
    (IsExec /\ Opcode \in {\hCF01, \hCD06, \hCD07} /\ last.out.kind = "Err") =>
        /\ NothingChanged
        /\ last.out.exc \in {"UnexpectedCondition", "IllegalSizeArgument",
                             "AddressNotInMemoryBounds"}

(* C8 witness: a store word whose bus write was refused returned an *)
(* exception                                                        *)
C8_Witness ==
    /\ IsExec /\ Opcode = \hCD07
    /\ last.bus.called /\ last.bus.out.kind = "Err"
    /\ last.out.kind = "Err"

(* C9. load_instr makes one bus read, of width 64 at the current IP.  When *)
(* the bus returns an exception, whichever it is, load_instr returns       *)
(* InstructionAccessFaultOnAddress(IP), never the exception of the bus;    *)
(* every exception load_instr returns is that one.  load_instr changes no  *)
(* register, not IP and no byte.                                           *)
C9_LoadInstr ==
    (last.op = "load_instr") =>
        /\ last.bus.called /\ last.bus.fn = "read"
        /\ last.bus.addr = last.pre.ip /\ last.bus.size = 64
        /\ last.bus.out.kind = "Err" =>
              last.out = Err("InstructionAccessFaultOnAddress", last.pre.ip)
        /\ last.out.kind = "Err" =>
              last.out = Err("InstructionAccessFaultOnAddress", last.pre.ip)
        /\ NothingChanged

(* C9 witness: a fetch at an IP outside the window, refused by the bus *)
(* with AddressNotInMemoryBounds, was reported as an access fault      *)
C9_Witness ==
    /\ last.op = "load_instr"
    /\ last.bus.out = Err("AddressNotInMemoryBounds", last.pre.ip)
    /\ last.out = Err("InstructionAccessFaultOnAddress", last.pre.ip)

(* C10. The run of the driver from new(): the program set r0 = 5;          *)
(* set r1 = 3; add r0, r1 -> r2; halt is placed from the start address,    *)
(* then load_instr and execute_instr alternate.  No step of it faults or   *)
(* panics, and when it exits the status is 0 and register 2 holds 8.       *)
C10_EndToEnd ==
    (scen # "off") =>
        /\ last.out.kind \in {"Ok", "Exit"}
        /\ last.out.kind = "Exit" => (last.out.arg = 0 /\ registers[2] = NatToU64(8))

(* C12. Whatever the word, execute_instr never indexes the register file  *)
(* outside 0..31: no call stops on an index out of the bounds of the       *)
(* register array.                                                         *)
C12_RegisterIndexInRange ==
    IsExec => ~(last.out = Panic("index out of bounds") /\ ~last.bus.delegated)

(* C13. When the bus call of a load or store word fails, execute_instr     *)
(* returns the exception the bus returned: AddressNotInMemoryBounds for an *)
(* address outside the window, and IllegalSizeArgument(width) only when    *)
(* the width (cda2) is not one of 8, 16, 32, 64.                           *)
C13_FaultPropagated ==
    (IsExec /\ Opcode \in {\hCD06, \hCD07} /\ last.bus.called /\ last.bus.out.kind = "Err") =>
        /\ last.out = last.bus.out
        /\ last.out.exc = "IllegalSizeArgument" => Field2 \notin ValidWidths
        /\ ~InWindow(last.bus.addr) => last.out = Err("AddressNotInMemoryBounds", last.bus.addr)

(* C14. load_instr and execute_instr end in one of three ways only: the    *)
(* step completes, an exception is returned, or the word is halt or exit   *)
(* and the process exits.  The process is never aborted.                   *)
C14_NoAbort ==
    (last.op \in {"load_instr", "execute_instr"}) =>
        /\ last.out.kind \in {"Ok", "Err", "Exit"}
        /\ last.out.kind = "Exit" => (IsExec /\ Opcode \in {\hFFFF, \hFFFA})
        /\ status # "panicked"

(* C15. A div word naming registers 0..31: when reg[cda2] is not zero the  *)
(* call returns Ok, reg[cda3] is the unsigned quotient reg[cda1] /         *)
(* reg[cda2] and IP advances by 1; when reg[cda2] is zero the call returns *)
(* an exception and changes no register, not IP and no byte.               *)
C15_Div ==
    (IsExec /\ Opcode = \hCD05 /\ Field1 < 32 /\ Field2 < 32 /\ Field3 < 32) =>
        IF last.pre.registers[Field2] # U64Zero
        THEN /\ last.out = Ok(Unit)
             /\ registers = [last.pre.registers EXCEPT
                                ![Field3] = WrappingDiv(last.pre.registers[Field1],
                                                        last.pre.registers[Field2])]
             /\ ip = last.pre.ip + 1
             /\ data = last.pre.data
        ELSE /\ last.out.kind = "Err"
             /\ NothingChanged

(* C16. A halt word ends the process with status 0 and an exit word ends   *)
(* it with status cda1, a value of 0..255; neither changes a register, IP  *)
(* or a byte; and once the process has exited nothing changes any more: no *)
(* further call is made on the cpu.                                        *)
C16_Terminal ==
    /\ [](IsExec /\ Opcode = \hFFFF => last.out = Exit(0))
    /\ [](IsExec /\ Opcode = \hFFFA => last.out = Exit(Field1) /\ Field1 \in 0..255)
    /\ [](IsExec /\ Opcode \in {\hFFFF, \hFFFA} => status = "exited" /\ NothingChanged)
    /\ [][status = "exited" => UNCHANGED vars]_vars

(* C16 witness: exit with code 255 ended a process whose cpu had been *)
(* changed by earlier calls                                           *)
C16_Witness ==
    /\ IsExec /\ Opcode = \hFFFA
    /\ last.out = Exit(255)
    /\ status = "exited"
    /\ registers # AVMCpu_new.registers

(* C17. With cda1 = bits [47:40], cda2 = [39:32], eda1 = [47:32], eda2 =   *)
(* [31:16], eda3 = [15:0] of the word and register fields in 0..31: move   *)
(* sets reg[cda2] to the value reg[cda1] had, set sets reg[cda1] to        *)
(* eda2 | eda3 | (eda1 & 0xFF), each changes no other register and adds    *)
(* exactly 1 to IP; jmp sets IP to eda1 | eda2 | eda3 and changes no       *)
(* register.                                                               *)
C17_MoveSetJmp ==
    IsExec =>
        /\ (Opcode = \hCD00 /\ Field1 < 32 /\ Field2 < 32) =>
              /\ last.out = Ok(Unit)
              /\ registers = [last.pre.registers EXCEPT ![Field2] = last.pre.registers[Field1]]
              /\ ip = last.pre.ip + 1
              /\ data = last.pre.data
        /\ (Opcode = \hCD01 /\ Field1 < 32) =>
              /\ last.out = Ok(Unit)
              /\ registers = [last.pre.registers EXCEPT
                                 ![Field1] = NatToU64(BitOr(BitOr(Wide2, Wide3), Wide1 % 256))]
              /\ ip = last.pre.ip + 1
              /\ data = last.pre.data
        /\ (Opcode = \hCF00) =>
              /\ last.out = Ok(Unit)
              /\ registers = last.pre.registers
              /\ ip = BitOr(BitOr(Wide1, Wide2), Wide3)
              /\ data = last.pre.data

(* C17 witness: a set word whose three fields all contribute to the value *)
(* has set register 2 to 0x0F00 | 0x00F0 | 0x07 and advanced IP by 1      *)
C17_Witness ==
    /\ IsExec /\ last.instr = Word(\hCD01, \h0207, \h0F00, \h00F0)
    /\ registers[2] = NatToU64(\h0FF7)
    /\ ip = last.pre.ip + 1

(* C18. After new(), IP is the base address, registers 12 and 13 hold     *)
(* base + size and every other register holds 0.  Registers 12 and 13 are  *)
(* not protected: a move, set, add, sub or mul word that names one of them *)
(* as its destination (and registers 0..31 as sources) writes it as it     *)
(* writes any register.                                                    *)
C18_InitialState ==
    /\ last.op = "new" =>
          /\ ip = \h10000000
          /\ data = << >>
          /\ \A i \in 0..31 :
                registers[i] = IF i \in {12, 13} THEN <<0, 0, 0, \h50, 0, 0, 0, 0>> ELSE U64Zero
    /\ (IsExec /\ Opcode = \hCD00 /\ Field2 \in {12, 13} /\ Field1 < 32) =>
          /\ last.out = Ok(Unit)
          /\ registers[Field2] = last.pre.registers[Field1]
    /\ (IsExec /\ Opcode = \hCD01 /\ Field1 \in {12, 13}) =>
          /\ last.out = Ok(Unit)
          /\ registers[Field1] = NatToU64(BitOr(BitOr(Wide2, Wide3), Wide1 % 256))
    /\ (IsExec /\ Opcode \in {\hCD02, \hCD03, \hCD04} /\ Field3 \in {12, 13}
           /\ Field1 < 32 /\ Field2 < 32) =>
          /\ last.out = Ok(Unit)
          /\ registers[Field3] = ArithResult(Opcode, last.pre.registers[Field1],
                                             last.pre.registers[Field2])

(* C18 witness: a set word has replaced the initial value of register 12 *)
C18_Witness ==
    /\ IsExec /\ Opcode = \hCD01 /\ Field1 = 12
    /\ last.pre.registers[12] = <<0, 0, 0, \h50, 0, 0, 0, 0>>
    /\ registers[12] = NatToU64(\hFFFF)

(* C19. For every load or store word the address eda2 | eda3 is at most   *)
(* 0xFFFF, below the base, so the bus rejects it and execute_instr returns *)
(* an exception; no register is loaded from memory and no call on the cpu  *)
(* changes a byte of memory.                                               *)
C19_LoadStoreRejected ==
    /\ (IsExec /\ Opcode \in {\hCD06, \hCD07}) =>
          /\ last.out.kind = "Err"
          /\ last.bus.called
          /\ last.bus.addr = BitOr(Wide2, Wide3)
          /\ last.bus.addr <= \hFFFF /\ last.bus.addr < MEMORY_START_ADDRESS
          /\ last.bus.out = Err("AddressNotInMemoryBounds", last.bus.addr)
          /\ registers = last.pre.registers
    /\ (last.op \in {"load_instr", "execute_instr"}) => data = last.pre.data

(* the last call was a jmp, or a jmc whose comparison held *)
TakenJump ==
    /\ IsExec /\ last.out = Ok(Unit)
    /\ \/ Opcode = \hCF00
       \/ /\ Opcode = \hCF01
          /\ Holds(JmcCond, last.pre.registers[JmcReg1], last.pre.registers[JmcReg2])

(* C20. Every taken control transfer lands below the window: after a jmp   *)
(* IP is at most 0xFFFF, after a taken jmc IP is in 0xA000..0xFFFF; and a  *)
(* load_instr that follows a taken jmp or jmc fetches at that IP and fails *)
(* with InstructionAccessFaultOnAddress(IP), so a loop that stops on a     *)
(* failed fetch executes nothing after a taken jump.                       *)
C20_JumpLeavesWindow ==
    /\ [](TakenJump => ip <= \hFFFF /\ ip < MEMORY_START_ADDRESS)
    /\ [](TakenJump /\ Opcode = \hCF01 => ip >= \hA000)
    /\ [][(TakenJump /\ last'.op = "load_instr") =>
              /\ last'.pre.ip = ip
              /\ last'.out = Err("InstructionAccessFaultOnAddress", ip)
              /\ UNCHANGED <<registers, ip, data>>]_vars

(* C20 witness: the fetch at 0xAD00, the target of the jmc word on r12 > r0 *)
(* and of no other word, has failed                                         *)
C20_Witness ==
    /\ last.op = "load_instr"
    /\ last.pre.ip = \hAD00
    /\ last.out = Err("InstructionAccessFaultOnAddress", \hAD00)

(* the last call was a jmc with a defined condition that did not hold *)
NotTakenJmc ==
    /\ IsExec /\ Opcode = \hCF01
    /\ JmcCond \in {\hA, \hB, \hC, \hD, \hE}
    /\ ~Holds(JmcCond, last.pre.registers[JmcReg1], last.pre.registers[JmcReg2])

(* C21. A jmc whose condition is defined but does not hold changes no      *)
(* register, not IP and no byte, and the load_instr that follows it        *)
(* fetches at the same IP and returns a word again, so that a loop of      *)
(* load_instr and execute_instr goes round on that jmc for ever.           *)
C21_NotTakenJmcRefetched ==
    /\ [](NotTakenJmc => last.out = Ok(Unit) /\ NothingChanged)
    /\ [][(NotTakenJmc /\ last'.op = "load_instr") =>
              /\ last'.pre.ip = ip
              /\ last'.out.kind = "Ok"]_vars

(* the registers the last call changed *)
ChangedRegisters == { i \in 0..31 : registers[i] # last.pre.registers[i] }

(* C23. The frame of execute_instr: move changes at most register cda2,    *)
(* set at most register cda1, add, sub, mul and div at most register cda3, *)
(* each besides IP; jmp and jmc change nothing but IP; store changes no    *)
(* register; load changes at most register cda1 and IP; and no word but a  *)
(* store changes a byte of memory.  The register file keeps its 32 slots.  *)
C23_Frame ==
    IsExec =>
        /\ DOMAIN registers = 0..31
        /\ Opcode = \hCD00 => ChangedRegisters \subseteq {Field2}
        /\ Opcode = \hCD01 => ChangedRegisters \subseteq {Field1}
        /\ Opcode \in {\hCD02, \hCD03, \hCD04, \hCD05} => ChangedRegisters \subseteq {Field3}
        /\ Opcode \in {\hCF00, \hCF01} => ChangedRegisters = {}
        /\ Opcode = \hCD06 => ChangedRegisters \subseteq {Field1}
        /\ Opcode = \hCD07 => ChangedRegisters = {}
        /\ Opcode \notin {\hCD00, \hCD01, \hCD02, \hCD03, \hCD04, \hCD05, \hCD06} =>
              ChangedRegisters = {}
        /\ Opcode # \hCD07 => data = last.pre.data

(* C23 witness: an add whose sources hold values has changed its *)
(* destination, register 5, and nothing else                     *)
C23_Witness ==
    /\ IsExec /\ Opcode = \hCD02 /\ Field3 = 5
    /\ last.pre.registers[Field1] # U64Zero
    /\ ChangedRegisters = {5}
    /\ ip = last.pre.ip + 1

----------------------------------------------------------------------------
(* Properties of the fetch at the upper end of the window, checked under   *)
(* SpecFetch.                                                              *)

WindowEnd == MEMORY_START_ADDRESS + MEMORY_SIZE

(* C11, as stated. A load_instr with IP = base + size + 1 is not rejected  *)
(* by the bus: the bus does not answer AddressNotInMemoryBounds and hands  *)
(* the read to the memory.                                                 *)
C11_FetchPastEndAccepted ==
    (last.op = "load_instr" /\ last.pre.ip = WindowEnd + 1) =>
        /\ ~(last.bus.out.kind = "Err" /\ last.bus.out.exc = "AddressNotInMemoryBounds")
        /\ last.bus.delegated

(* C11, amended. A load_instr with IP = base + size + 1 is rejected by the *)
(* bus with AddressNotInMemoryBounds(IP) before the memory is reached, and *)
(* load_instr returns InstructionAccessFaultOnAddress(IP); the last IP the *)
(* bus hands to the memory is base + size.                                 *)
C11_FetchPastEndRejected ==
    (last.op = "load_instr") =>
        /\ last.pre.ip = WindowEnd + 1 =>
              /\ last.bus.out = Err("AddressNotInMemoryBounds", WindowEnd + 1)
              /\ ~last.bus.delegated
              /\ last.out = Err("InstructionAccessFaultOnAddress", WindowEnd + 1)
              /\ NothingChanged
        /\ last.pre.ip = WindowEnd =>
              /\ ~(last.bus.out.kind = "Err" /\ last.bus.out.exc = "AddressNotInMemoryBounds")
              /\ last.bus.delegated

(* C11 witness: a fetch at IP = base + size + 1 has been made and refused *)
C11_Witness ==
    /\ last.op = "load_instr"
    /\ last.pre.ip = WindowEnd + 1
    /\ last.out.kind = "Err"

(* the values the claim allows IP: the window, one past it, or 0..0xFFFF *)
IpAllowed(a) == InWindow(a) \/ a = WindowEnd + 1 \/ a <= \hFFFF

(* C22. IP stays in [base, base + size + 1] or in [0, 0xFFFF] in a loop of *)
(* load_instr and execute_instr: an execute_instr at an IP of the window   *)
(* leaves IP in the window, one past it, or at most 0xFFFF (far below      *)
(* 2^64); load_instr never changes IP; and a load_instr at an IP outside   *)
(* the window returns an exception, not a word, so every word the loop     *)
(* executes was fetched at an IP in [base, base + size].                   *)
C22_IpRange ==
    /\ [][(last'.op = "execute_instr" /\ InWindow(ip)) => IpAllowed(ip')]_vars
    /\ [][(last'.op = "load_instr") =>
              /\ ip' = ip
              /\ ~InWindow(ip) => last'.out.kind = "Err"]_vars

(* C22 witness: an instruction executed at IP = base + size has left IP *)
(* one past the window                                                  *)
C22_Witness ==
    /\ steps >= 1
    /\ IsExec /\ last.out = Ok(Unit)
    /\ last.pre.ip = WindowEnd
    /\ ip = WindowEnd + 1

----------------------------------------------------------------------------
(* Properties of the lexer, checked under SpecLex *)

(* the input is made of the characters the arms of tokenize take *)
AcceptedInput ==
    \A k \in 1..Len(lex.input) :
        \/ lex.input[k] \in {"$", "@", "\n", "\t"}
        \/ \E q \in punctuation : q[1] = lex.input[k]
        \/ is_digit(lex.input[k], 10)
        \/ is_alphabetic(lex.input[k])
        \/ is_whitespace(lex.input[k])

(* C24. On a non-empty input of accepted characters every iteration of the *)
(* main loop of tokenize that stays in the loop leaves pos strictly        *)
(* greater than it was, the iteration on '@' included, so that the loop    *)
(* ends after at most as many iterations as the input has characters and   *)
(* tokenize returns.                                                       *)
C24_TokenizeProgress ==
    [][(AcceptedInput /\ lex.state = "loop" /\ lex'.state = "loop") => lex'.pos > lex.pos]_vars

====
